---- MODULE Spec2Model ----
(***************************************************************************)
(* Model of src/handler.py: the contact-form Lambda handler that validates *)
(* a submission and forwards it through SES.                               *)
(*                                                                         *)
(* Text is a sequence of one-character strings.  A JSON value is a record  *)
(* with a tag t: "str" (with s, the text), "num", "bool", "list", "null".  *)
(***************************************************************************)
EXTENDS Integers, Sequences, FiniteSets, TLC

\* ------------------------------------------------------------------ text

UpperLetters == <<"A","B","C","D","E","F","G","H","I","J","K","L","M",
                  "N","O","P","Q","R","S","T","U","V","W","X","Y","Z">>

LowerLetters == <<"a","b","c","d","e","f","g","h","i","j","k","l","m",
                  "n","o","p","q","r","s","t","u","v","w","x","y","z">>

Range(f) == {f[i] : i \in DOMAIN f}

\* str.lower() on one character
LowerChar(c) ==
  IF c \in Range(UpperLetters)
    THEN LowerLetters[CHOOSE i \in DOMAIN UpperLetters : UpperLetters[i] = c]
    ELSE c

\* str.lower()
lower(s) == [i \in DOMAIN s |-> LowerChar(s[i])]

IsLetter(c) == c \in Range(UpperLetters) \cup Range(LowerLetters)

\* \d
IsDigit(c) == c \in {"0","1","2","3","4","5","6","7","8","9"}

\* \s (and the characters str.strip() removes)
IsSpace(c) == c \in {" ", "\t", "\n", "\r", "\f"}

\* \w
IsWord(c) == IsLetter(c) \/ IsDigit(c) \/ c = "_"

\* the literal lit (given in lower case) stands at position i of s, in any case
MatchLit(s, i, lit) ==
  /\ i >= 1
  /\ i + Len(lit) - 1 <= Len(s)
  /\ \A k \in 1..Len(lit) : LowerChar(s[i + k - 1]) = lit[k]

\* the same, case-sensitive (str.replace, the in operator)
MatchExact(s, i, lit) ==
  /\ i >= 1
  /\ i + Len(lit) - 1 <= Len(s)
  /\ \A k \in 1..Len(lit) : s[i + k - 1] = lit[k]

\* lit in s
Contains(s, lit) == \E i \in 1..Len(s) : MatchExact(s, i, lit)

\* \s* from position i: the first position at or after i that holds no space
SkipSpace(s, i) ==
  IF \A j \in i..Len(s) : IsSpace(s[j]) THEN (IF i > Len(s) THEN i ELSE Len(s) + 1)
  ELSE CHOOSE j \in i..Len(s) : ~IsSpace(s[j]) /\ \A k \in i..(j - 1) : IsSpace(s[k])

\* \w* from position i
SkipWord(s, i) ==
  IF \A j \in i..Len(s) : IsWord(s[j]) THEN (IF i > Len(s) THEN i ELSE Len(s) + 1)
  ELSE CHOOSE j \in i..Len(s) : ~IsWord(s[j]) /\ \A k \in i..(j - 1) : IsWord(s[k])

\* the first position at or after i that holds c, or 0
FindChar(s, i, c) ==
  IF \A j \in i..Len(s) : s[j] # c THEN 0
  ELSE CHOOSE j \in i..Len(s) : s[j] = c /\ \A k \in i..(j - 1) : s[k] # c

L_script == <<"s","c","r","i","p","t">>
L_javascript == <<"j","a","v","a","s","c","r","i","p","t",":">>
L_on == <<"o","n">>
L_amp == <<"&","a","m","p",";">>
L_lt == <<"&","l","t",";">>
L_gt == <<"&","g","t",";">>
L_quot == <<"&","q","u","o","t",";">>

\* <\s*script[^>]*> at position i: the position after the tag, or 0
OpenTagEnd(s, i) ==
  IF i <= Len(s) /\ s[i] = "<" /\ MatchLit(s, SkipSpace(s, i + 1), L_script)
    THEN LET g == FindChar(s, SkipSpace(s, i + 1) + 6, ">")
         IN  IF g = 0 THEN 0 ELSE g + 1
    ELSE 0

\* <\s*/\s*script\s*> at position p: the position after it, or 0
CloseTagEnd(s, p) ==
  IF p <= Len(s) /\ s[p] = "<"
    THEN LET a == SkipSpace(s, p + 1)
         IN  IF a <= Len(s) /\ s[a] = "/" /\ MatchLit(s, SkipSpace(s, a + 1), L_script)
               THEN LET g == SkipSpace(s, SkipSpace(s, a + 1) + 6)
                    IN  IF g <= Len(s) /\ s[g] = ">" THEN g + 1 ELSE 0
               ELSE 0
    ELSE 0

\* of the pairs <<start, end>> (end 0: no match at start), the end of the match
\* with the least start, or 0
FirstMatchEnd(pairs) ==
  IF \A q \in pairs : q[2] = 0 THEN 0
  ELSE (CHOOSE q \in pairs : q[2] # 0 /\ \A r \in pairs : r[2] # 0 => q[1] <= r[1])[2]

\* .*? then the closing tag: the end of the first closing tag that starts at or
\* after p, or 0
FindClose(s, p) == FirstMatchEnd({<<j, CloseTagEnd(s, j)>> : j \in p..Len(s)})

\* the rest of the pattern after an opening tag that ends before position o
CloseAfter(s, o) == IF o = 0 THEN 0 ELSE FindClose(s, o)

\* <\s*script[^>]*>.*?<\s*/\s*script\s*> at position i: the position after the
\* match, or 0
ScriptBlockEnd(s, i) == CloseAfter(s, OpenTagEnd(s, i))

\* javascript: at position i: the position after the match, or 0
JavascriptEnd(s, i) ==
  IF MatchLit(s, i, L_javascript) THEN i + Len(L_javascript) ELSE 0

\* on\w+\s*= at position i: the position after the match, or 0
OnAttrEnd(s, i) ==
  IF MatchLit(s, i, L_on) /\ i + 2 <= Len(s) /\ IsWord(s[i + 2])
    THEN LET g == SkipSpace(s, SkipWord(s, i + 2))
         IN  IF g <= Len(s) /\ s[g] = "=" THEN g + 1 ELSE 0
    ELSE 0

\* the end of the match of pattern pat at position i, or 0
MatchEnd(pat, s, i) ==
  CASE pat = "script" -> ScriptBlockEnd(s, i)
    [] pat = "javascript" -> JavascriptEnd(s, i)
    [] pat = "on" -> OnAttrEnd(s, i)

\* re.sub(pat, "", s) scans left to right: a match at the position is dropped and
\* the scan goes on after it, any other character is kept.  ScanPos is the
\* position after n scan steps from i, ScanOut the text those steps keep (the
\* steps are split in halves to keep the evaluation shallow).
\* one scan step at position i, where the pattern matches up to e (0: no match)
StepPos(i, e) == IF e # 0 THEN e ELSE i + 1
StepOut(s, i, e) == IF e # 0 THEN <<>> ELSE <<s[i]>>

RECURSIVE ScanPos(_, _, _, _)
ScanPos(pat, s, i, n) ==
  IF n = 0 \/ i > Len(s) THEN i
  ELSE IF n = 1 THEN StepPos(i, MatchEnd(pat, s, i))
  ELSE ScanPos(pat, s, ScanPos(pat, s, i, n \div 2), n - (n \div 2))

RECURSIVE ScanOut(_, _, _, _)
ScanOut(pat, s, i, n) ==
  IF n = 0 \/ i > Len(s) THEN <<>>
  ELSE IF n = 1 THEN StepOut(s, i, MatchEnd(pat, s, i))
  ELSE ScanOut(pat, s, i, n \div 2)
         \o ScanOut(pat, s, ScanPos(pat, s, i, n \div 2), n - (n \div 2))

\* re.sub(pat, "", s, flags=re.IGNORECASE | re.DOTALL)
re_sub_remove(pat, s) == ScanOut(pat, s, 1, Len(s))

\* re.sub(r"<\s*script[^>]*>.*?<\s*/\s*script\s*>", "", s, IGNORECASE | DOTALL)
RemoveScriptBlocks(s) == re_sub_remove("script", s)

\* re.sub(r"javascript:", "", s, IGNORECASE)
RemoveJavascript(s) == re_sub_remove("javascript", s)

\* re.sub(r"on\w+\s*=", "", s, IGNORECASE)
RemoveOnAttr(s) == re_sub_remove("on", s)

RECURSIVE ReplaceRange(_, _, _, _, _)
\* s[lo..hi].replace(c, rep) for a one-character c (split in halves)
ReplaceRange(s, lo, hi, c, rep) ==
  IF lo > hi THEN <<>>
  ELSE IF lo = hi THEN (IF s[lo] = c THEN rep ELSE <<s[lo]>>)
  ELSE ReplaceRange(s, lo, (lo + hi) \div 2, c, rep)
         \o ReplaceRange(s, (lo + hi) \div 2 + 1, hi, c, rep)

\* s.replace(c, rep) for a one-character c
ReplaceChar(s, c, rep) == ReplaceRange(s, 1, Len(s), c, rep)

\* str.strip(): the text from its first to its last character that is no space
strip(s) ==
  IF \A j \in DOMAIN s : IsSpace(s[j]) THEN <<>>
  ELSE SubSeq(s,
              CHOOSE j \in DOMAIN s : ~IsSpace(s[j]) /\ \A k \in 1..(j - 1) : IsSpace(s[k]),
              CHOOSE j \in DOMAIN s : ~IsSpace(s[j]) /\ \A k \in (j + 1)..Len(s) : IsSpace(s[k]))

\* the four str.replace calls, in the order of the source
HtmlEncode(s) ==
  ReplaceChar(ReplaceChar(ReplaceChar(ReplaceChar(s, "&", L_amp), "<", L_lt),
                          ">", L_gt), "\"", L_quot)

\* sanitize_input on a str
sanitize_input(s) ==
  IF s = <<>> THEN <<>>
  ELSE strip(HtmlEncode(RemoveOnAttr(RemoveJavascript(RemoveScriptBlocks(s)))))

\* ------------------------------------------------------------ validators

\* s.count("@")
CountAt(s) == Cardinality({i \in DOMAIN s : s[i] = "@"})

\* len(re.sub(r"\D", "", s))
CountDigits(s) == Cardinality({i \in DOMAIN s : IsDigit(s[i])})

\* email.split("@")[0]
LocalPart(s) ==
  IF FindChar(s, 1, "@") = 0 THEN s ELSE SubSeq(s, 1, FindChar(s, 1, "@") - 1)

\* re.match(r"^[^\s@]+@[^\s@]+\.[^\s@]+$", s): no white space, exactly one "@"
\* with text before it, and after it a "." that has text on both sides
MatchesEmailRegex(s) ==
  /\ \A i \in DOMAIN s : ~IsSpace(s[i])
  /\ CountAt(s) = 1
  /\ FindChar(s, 1, "@") > 1
  /\ \E d \in (FindChar(s, 1, "@") + 2)..(Len(s) - 1) : s[d] = "."

\* lines 71-85 of is_valid_email, on the sanitized, stripped, lower-cased email
email_checks(e) ==
  IF ~MatchesEmailRegex(e) THEN FALSE
  ELSE IF Len(e) > 254 THEN FALSE
  ELSE IF Len(LocalPart(e)) > 64 THEN FALSE
  ELSE IF Contains(e, L_lt) \/ Contains(e, L_gt) THEN FALSE
  ELSE TRUE

\* is_valid_email
is_valid_email(email) == email_checks(lower(strip(sanitize_input(email))))

\* [a-zA-Z\s\-']
IsNameChar(c) == IsLetter(c) \/ IsSpace(c) \/ c = "-" \/ c = "'"

\* lines 100-107 of is_valid_name, on the stripped name
name_checks(cleaned) ==
  IF cleaned = <<>> \/ Len(cleaned) < 2 THEN FALSE
  ELSE IF Len(cleaned) > 100 THEN FALSE
  ELSE \A i \in DOMAIN cleaned : IsNameChar(cleaned[i])

\* is_valid_name
is_valid_name(name) == name_checks(IF name # <<>> THEN strip(name) ELSE <<>>)

\* [\d\s\-\(\)\+]
IsPhoneChar(c) == IsDigit(c) \/ IsSpace(c) \/ c \in {"-", "(", ")", "+"}

\* len(re.sub(r"\D", "", cleaned)) between 7 and 15
digit_count_ok(digits) == ~(digits < 7 \/ digits > 15)

\* lines 125-135 of is_valid_phone, on the sanitized, stripped phone
phone_checks(cleaned) ==
  IF cleaned = <<>> \/ \E i \in DOMAIN cleaned : ~IsPhoneChar(cleaned[i]) THEN FALSE
  ELSE digit_count_ok(CountDigits(cleaned))

\* is_valid_phone
is_valid_phone(phone) ==
  IF phone = <<>> \/ strip(phone) = <<>> THEN TRUE
  ELSE phone_checks(strip(sanitize_input(phone)))

\* lines 150-155 of is_valid_message, on the sanitized, stripped message
message_checks(cleaned) ==
  IF cleaned = <<>> \/ Len(cleaned) < 5 THEN FALSE
  ELSE IF Len(cleaned) > 5000 THEN FALSE
  ELSE TRUE

\* is_valid_message
is_valid_message(message) == message_checks(strip(sanitize_input(message)))

\* ------------------------------------------------------- values and inputs

\* A Python value taken from the parsed body: t is its type, s its text when it is
\* a str, truthy its truth value ("not v" is ~truthy).
PyStr(s) == [t |-> "str", s |-> s, truthy |-> s # <<>>]
PyOther(t, truthy) == [t |-> t, s |-> <<>>, truthy |-> truthy]
PyNone == PyOther("NoneType", FALSE)

\* A key of a dict: present or not, and its value.
Key(v) == [present |-> TRUE, v |-> v]
NoKey == [present |-> FALSE, v |-> PyNone]

\* dict.get(key, default)
dict_get(d, key, default) == IF d[key].present THEN d[key].v ELSE default

FieldNames == <<"name", "email", "phone", "message">>

NoFields == [k \in Range(FieldNames) |-> NoKey]

\* What json.loads makes of a JSON text: a dict with its keys, or another value.
JsonObject(fields) == [t |-> "dict", fields |-> fields]
JsonOther(t) == [t |-> t, fields |-> NoFields]

\* A JSON text: well-formed or not, and the value it denotes.
JsonText(doc) == [wf |-> TRUE, doc |-> doc]
Malformed == [wf |-> FALSE, doc |-> JsonOther("NoneType")]

\* json.loads(text): the value, or JSONDecodeError; TypeError when the argument is
\* no str (None)
json_loads(b) ==
  IF ~b.isStr THEN [exc |-> "TypeError", doc |-> JsonOther("NoneType")]
  ELSE IF ~b.text.wf THEN [exc |-> "JSONDecodeError", doc |-> JsonOther("NoneType")]
  ELSE [exc |-> "none", doc |-> b.text.doc]

\* The value under the event's "body" key.
BodyStr(text) == [isStr |-> TRUE, text |-> text]
BodyNone == [isStr |-> FALSE, text |-> Malformed]

\* DefaultBody with the default "" in place of "{}"
DefaultBody_Empty == BodyStr(Malformed)

\* event.get("body", "{}")
DefaultBody == BodyStr(JsonText(JsonObject(NoFields)))

\* sample field values
S_J == <<"J">>
S_Al == <<"A","l">>
S_Email == <<"a","@","b",".","c">>
S_EmailNoDot == <<"a","@","b">>
S_EmailAngle == <<"<","a","@","b",".","c">>
S_Phone == <<"5","5","5","-","1","2","3","4">>
S_PhoneShort == <<"1","2","3">>
S_Hello == <<"h","e","l","l","o">>
S_Abcd == <<"a","b","c","d">>
S_Lt == <<"<">>
S_JavaJava ==
  <<"j","a","v","a","j","a","v","a","s","c","r","i","p","t",":","s","c","r","i","p","t",
    ":","h","e","l","l","o">>

NameValues == {NoKey, Key(PyStr(S_J)), Key(PyStr(S_Al)), Key(PyOther("int", TRUE))}

EmailValues ==
  {NoKey, Key(PyStr(S_EmailNoDot)), Key(PyStr(S_Email)), Key(PyStr(S_EmailAngle)), Key(PyNone)}

PhoneValues ==
  {NoKey, Key(PyStr(S_PhoneShort)), Key(PyStr(S_Phone)), Key(PyOther("list", TRUE))}

MessageValues ==
  {NoKey, Key(PyStr(S_Abcd)), Key(PyStr(S_Hello)), Key(PyStr(S_Lt)),
   Key(PyStr(S_JavaJava)), Key(PyOther("bool", TRUE))}

Submissions ==
  {[name |-> n, email |-> e, phone |-> p, message |-> m] :
     n \in NameValues, e \in EmailValues, p \in PhoneValues, m \in MessageValues}

\* the bodies a request may carry: none, None, malformed text, JSON that is no
\* object, and objects
Bodies ==
  {NoKey, Key(BodyNone), Key(BodyStr(Malformed))}
    \cup {Key(BodyStr(JsonText(JsonOther(t)))) : t \in {"list", "NoneType", "int", "str"}}
    \cup {Key(BodyStr(JsonText(JsonObject(f)))) : f \in Submissions}

\* event.get("httpMethod"): the method, or None when the key is absent
Methods == {"OPTIONS", "POST", "None"}

\* The event: a dict with its method and body, or a value that is no dict.
Events ==
  {[isDict |-> TRUE, httpMethod |-> m, body |-> b] : m \in Methods, b \in Bodies}
    \cup {[isDict |-> FALSE, httpMethod |-> "None", body |-> NoKey]}

\* The context: with the aws_request_id attribute, or without it.
Contexts == {[has_aws_request_id |-> TRUE], [has_aws_request_id |-> FALSE]}

\* os.getenv(name): the value, or None when the variable is not set
EnvUnset == [set |-> FALSE, value |-> ""]
EnvSet(v) == [set |-> TRUE, value |-> v]

Regions == {"us-east-1", "eu-west-1"}
Recipients == {"admin@example.com", "owner@example.com"}

Environments ==
  {[AWS_REGION |-> r, RECIPIENT_EMAIL |-> a] :
     r \in {EnvUnset, EnvSet("")} \cup {EnvSet(x) : x \in Regions},
     a \in {EnvUnset, EnvSet("")} \cup {EnvSet(x) : x \in Recipients}}

NoEnvironment == [AWS_REGION |-> EnvUnset, RECIPIENT_EMAIL |-> EnvUnset]

\* get_required_env_var that rejects only an unset variable ("if value is None")
get_required_env_var_unset_only(env, name) ==
  IF ~env[name].set
    THEN [exc |-> "ValueError", value |-> ""]
    ELSE [exc |-> "none", value |-> env[name].value]

\* get_required_env_var: the value, or ValueError when it is unset or empty
get_required_env_var(env, name) ==
  IF ~env[name].set \/ env[name].value = ""
    THEN [exc |-> "ValueError", value |-> ""]
    ELSE [exc |-> "none", value |-> env[name].value]

\* What ses_client.send_email does: it returns, raises ClientError (whose
\* response holds an Error with Code and Message, or no Error at all), or raises
\* another exception.
SendOutcomes ==
  {[kind |-> "ok", hasError |-> FALSE, Code |-> "", Message |-> ""],
   [kind |-> "ClientError", hasError |-> FALSE, Code |-> "", Message |-> ""],
   [kind |-> "Exception", hasError |-> FALSE, Code |-> "", Message |-> "Unexpected error"]}
    \cup {[kind |-> "ClientError", hasError |-> TRUE, Code |-> c, Message |-> m] :
            c \in {"MessageRejected", "ServiceUnavailable", "Throttling"},
            m \in {"Email address not verified", "Service is temporarily unavailable"}}

\* ------------------------------------------------------------- responses

NoBody == [present |-> FALSE, success |-> FALSE, message |-> ""]

\* json.dumps({"success": ..., "message": ...}): the JSON document with these two
\* members
json_dumps(success, message) == [present |-> TRUE, success |-> success, message |-> message]

Returned(status, headers, body) ==
  [kind |-> "return", statusCode |-> status, headers |-> headers, body |-> body,
   exc |-> "none"]

\* an exception that leaves lambda_handler
Raised(exc) ==
  [kind |-> "raise", statusCode |-> 0, headers |-> {}, body |-> NoBody, exc |-> exc]

NoResponse ==
  [kind |-> "none", statusCode |-> 0, headers |-> {}, body |-> NoBody, exc |-> "none"]

JsonHeaders ==
  {<<"Access-Control-Allow-Origin", "*">>, <<"Content-Type", "application/json">>}

\* error_response without the cross-origin header
error_response_no_cors(status_code, message) ==
  Returned(status_code, {<<"Content-Type", "application/json">>},
           json_dumps(FALSE, message))

\* error_response
error_response(status_code, message) ==
  Returned(status_code, JsonHeaders, json_dumps(FALSE, message))

\* success_response
success_response(message) ==
  Returned(200, JsonHeaders, json_dumps(TRUE, message))

\* the response to the CORS preflight
preflight_response ==
  Returned(200,
           {<<"Access-Control-Allow-Origin", "*">>,
            <<"Access-Control-Allow-Methods", "POST, OPTIONS">>,
            <<"Access-Control-Allow-Headers", "Content-Type">>},
           NoBody)

\* the outer except clause
unexpected_error_response == error_response(500, "An unexpected error occurred")

\* ----------------------------------------------------------- the handler

MaxInvocations == 3

VARIABLES
  pc,               \* where lambda_handler stands: "idle" between invocations
  invocations,      \* invocations started in this process
  failures,         \* earlier invocations of the process that did not end with 200
  event, context,   \* the arguments of the invocation
  environ,          \* the environment as read in the invocation
  body,             \* the parsed body
  name, email, phone, message,   \* the sanitized fields
  aws_region, recipient_email,   \* the configuration values read
  ses_client,       \* the module-level client slot
  created,          \* handles boto3.client has returned in this process
  calls,            \* what the invocation has called so far, in order
  sends,            \* the send_email calls of the invocation, in order
  send_results,     \* what each of these calls did
  response          \* what the invocation gave its caller

vars ==
  <<pc, invocations, failures, event, context, environ, body, name, email, phone, message,
    aws_region, recipient_email, ses_client, created, calls, sends, send_results,
    response>>

\* what is recorded of the send_email calls
sent == <<sends, send_results>>

locals == <<body, name, email, phone, message, aws_region, recipient_email>>

\* ses_client = None
NoClient == [id |-> 0, region_name |-> ""]

NoEvent == [isDict |-> FALSE, httpMethod |-> "None", body |-> NoKey]

Init ==
  /\ pc = "idle"
  /\ invocations = 0
  /\ failures = 0
  /\ event = NoEvent
  /\ context = [has_aws_request_id |-> TRUE]
  /\ environ = NoEnvironment
  /\ body = JsonOther("NoneType")
  /\ name = <<>> /\ email = <<>> /\ phone = <<>> /\ message = <<>>
  /\ aws_region = "" /\ recipient_email = ""
  /\ ses_client = NoClient
  /\ created = 0
  /\ calls = <<>>
  /\ sends = <<>>
  /\ send_results = <<>>
  /\ response = NoResponse

\* The runtime calls lambda_handler(e, c); the locals of the call start unset.
Invoke(e, c) ==
  /\ pc = "idle"
  /\ invocations < MaxInvocations
  /\ invocations' = invocations + 1
  /\ event' = e /\ context' = c
  /\ pc' = "receive"
  /\ UNCHANGED <<failures, environ, locals, ses_client, created, calls, sent, response>>

\* return r, or an exception leaving the handler
Finish(r) == response' = r /\ pc' = "done"

\* Receive without the OPTIONS branch
Receive_NoPreflight ==
  /\ pc = "receive"
  /\ IF ~context.has_aws_request_id THEN Finish(Raised("AttributeError"))
     ELSE IF ~event.isDict THEN Finish(Raised("AttributeError"))
     ELSE pc' = "parse" /\ UNCHANGED response
  /\ UNCHANGED <<invocations, failures, event, context, environ, locals, ses_client, created,
                 calls, sent>>

\* Receive in a process that answers 500 once an invocation has failed
Receive_AfterFailure ==
  /\ pc = "receive"
  /\ IF ~context.has_aws_request_id THEN Finish(Raised("AttributeError"))
     ELSE IF ~event.isDict THEN Finish(Raised("AttributeError"))
     ELSE IF failures > 0 THEN Finish(unexpected_error_response)
     ELSE IF event.httpMethod = "OPTIONS" THEN Finish(preflight_response)
     ELSE pc' = "parse" /\ UNCHANGED response
  /\ UNCHANGED <<invocations, failures, event, context, environ, locals, ses_client,
                 created, calls, sent>>

\* Lines 210-223: the request id is read from the context and the method from the
\* event, outside the try block; an OPTIONS request is answered at once.
Receive ==
  /\ pc = "receive"
  /\ IF ~context.has_aws_request_id THEN Finish(Raised("AttributeError"))
     ELSE IF ~event.isDict THEN Finish(Raised("AttributeError"))
     ELSE IF event.httpMethod = "OPTIONS" THEN Finish(preflight_response)
     ELSE pc' = "parse" /\ UNCHANGED response
  /\ UNCHANGED <<invocations, failures, event, context, environ, locals, ses_client, created,
                 calls, sent>>

\* Lines 226-241: the body is parsed and must be a dict.
Parse ==
  /\ pc = "parse"
  /\ LET body_str == dict_get(event, "body", DefaultBody)
         parsed == json_loads(body_str)
     IN  /\ calls' = Append(calls, "json.loads")
         /\ IF parsed.exc = "JSONDecodeError"
              THEN Finish(error_response(400, "Invalid JSON format")) /\ UNCHANGED body
            ELSE IF parsed.exc # "none"
              THEN Finish(unexpected_error_response) /\ UNCHANGED body
            ELSE IF parsed.doc.t # "dict"
              THEN /\ Finish(error_response(400, "Request body must be a JSON object"))
                   /\ body' = parsed.doc
            ELSE body' = parsed.doc /\ pc' = "validate" /\ UNCHANGED response
  /\ UNCHANGED <<invocations, failures, event, context, environ, name, email, phone, message,
                 aws_region, recipient_email, ses_client, created, sent>>

\* sanitize_input(v) for any Python value v: "" when v is falsy, TypeError from
\* re.sub when v is truthy and no str
sanitize_call(v) ==
  IF ~v.truthy THEN [exc |-> "none", s |-> <<>>]
  ELSE IF v.t # "str" THEN [exc |-> "TypeError", s |-> <<>>]
  ELSE [exc |-> "none", s |-> sanitize_input(v.s)]

\* Lines 250-281 on the sanitized fields: the first check that fails, or "none",
\* and the checks that were made, in order.
CheckName(n) == n = <<>> \/ ~is_valid_name(n)
CheckEmail(e) == e = <<>> \/ ~is_valid_email(e)
CheckPhone(p) == p # <<>> /\ ~is_valid_phone(p)
CheckMessage(m) == m = <<>> \/ ~is_valid_message(m)

\* validate_fields with the email checked before the name
validate_fields_email_first(n, e, p, m) ==
  IF CheckEmail(e) THEN [failed |-> "email", checked |-> <<"email">>]
  ELSE IF CheckName(n) THEN [failed |-> "name", checked |-> <<"email", "name">>]
  ELSE IF CheckPhone(p)
    THEN [failed |-> "phone", checked |-> <<"email", "name", "phone">>]
  ELSE IF CheckMessage(m)
    THEN [failed |-> "message", checked |-> <<"email", "name", "phone", "message">>]
  ELSE [failed |-> "none", checked |-> <<"email", "name", "phone", "message">>]

validate_fields(n, e, p, m) ==
  IF CheckName(n) THEN [failed |-> "name", checked |-> <<"name">>]
  ELSE IF CheckEmail(e) THEN [failed |-> "email", checked |-> <<"name", "email">>]
  ELSE IF CheckPhone(p)
    THEN [failed |-> "phone", checked |-> <<"name", "email", "phone">>]
  ELSE IF CheckMessage(m)
    THEN [failed |-> "message", checked |-> <<"name", "email", "phone", "message">>]
  ELSE [failed |-> "none", checked |-> <<"name", "email", "phone", "message">>]

\* the message of the 400 response for a failed field
validation_message(field) ==
  CASE field = "name" -> "Invalid name"
    [] field = "email" -> "Invalid email"
    [] field = "phone" -> "Invalid phone number"
    [] field = "message" -> "Invalid message (5-5000 characters)"

CheckCalls(checked) == [i \in DOMAIN checked |-> "check:" \o checked[i]]

\* Validated without the return after a failed check
Validated_NoReturn(v) ==
  /\ calls' = Append(calls, "sanitize") \o CheckCalls(v.checked)
  /\ pc' = "configure" /\ UNCHANGED response

\* Lines 249-285, with the sanitized fields and v, the outcome of their checks
Validated(v) ==
  /\ calls' = Append(calls, "sanitize") \o CheckCalls(v.checked)
  /\ IF v.failed # "none"
       THEN Finish(error_response(400, validation_message(v.failed)))
       ELSE pc' = "configure" /\ UNCHANGED response

\* Lines 244-285, with n, e, p, m what sanitize_input makes of the four fields: a
\* TypeError ends the invocation at the field that raised it
Sanitized(n, e, p, m) ==
  IF n.exc # "none"
    THEN /\ Finish(unexpected_error_response)
         /\ calls' = Append(calls, "sanitize")
         /\ UNCHANGED <<name, email, phone, message>>
  ELSE IF e.exc # "none"
    THEN /\ Finish(unexpected_error_response)
         /\ calls' = Append(calls, "sanitize")
         /\ name' = n.s
         /\ UNCHANGED <<email, phone, message>>
  ELSE IF p.exc # "none"
    THEN /\ Finish(unexpected_error_response)
         /\ calls' = Append(calls, "sanitize")
         /\ name' = n.s /\ email' = e.s
         /\ UNCHANGED <<phone, message>>
  ELSE IF m.exc # "none"
    THEN /\ Finish(unexpected_error_response)
         /\ calls' = Append(calls, "sanitize")
         /\ name' = n.s /\ email' = e.s /\ phone' = p.s
         /\ UNCHANGED message
  ELSE /\ name' = n.s /\ email' = e.s /\ phone' = p.s /\ message' = m.s
       /\ Validated(validate_fields(n.s, e.s, p.s, m.s))

\* Lines 243-285: the four fields are sanitized, then checked in order.
Validate ==
  /\ pc = "validate"
  /\ Sanitized(sanitize_call(dict_get(body.fields, "name", PyStr(<<>>))),
               sanitize_call(dict_get(body.fields, "email", PyStr(<<>>))),
               sanitize_call(dict_get(body.fields, "phone", PyStr(<<>>))),
               sanitize_call(dict_get(body.fields, "message", PyStr(<<>>))))
  /\ UNCHANGED <<invocations, failures, event, context, environ, body, aws_region,
                 recipient_email, ses_client, created, sent>>

\* Lines 287-288: the two required configuration values are read from the
\* environment, which holds env at this moment.
Configure(env) ==
  /\ pc = "configure"
  /\ environ' = env
  /\ LET r == get_required_env_var(env, "AWS_REGION")
         a == get_required_env_var(env, "RECIPIENT_EMAIL")
     IN  IF r.exc # "none"
           THEN /\ Finish(unexpected_error_response)
                /\ calls' = Append(calls, "getenv:AWS_REGION")
                /\ UNCHANGED <<aws_region, recipient_email>>
         ELSE IF a.exc # "none"
           THEN /\ Finish(unexpected_error_response)
                /\ calls' = calls \o <<"getenv:AWS_REGION", "getenv:RECIPIENT_EMAIL">>
                /\ aws_region' = r.value
                /\ UNCHANGED recipient_email
         ELSE /\ aws_region' = r.value /\ recipient_email' = a.value
              /\ calls' = calls \o <<"getenv:AWS_REGION", "getenv:RECIPIENT_EMAIL">>
              /\ pc' = "client" /\ UNCHANGED response
  /\ UNCHANGED <<invocations, failures, event, context, body, name, email, phone, message,
                 ses_client, created, sent>>

\* AcquireClient without the "is None" test: a client is made on every invocation
AcquireClient_Always(ok) ==
  /\ pc = "client"
  /\ calls' = Append(calls, "boto3.client")
  /\ IF ok
       THEN /\ ses_client' = [id |-> created + 1, region_name |-> aws_region]
            /\ created' = created + 1
            /\ pc' = "send" /\ UNCHANGED response
       ELSE /\ Finish(unexpected_error_response)
            /\ UNCHANGED <<ses_client, created>>
  /\ UNCHANGED <<invocations, failures, event, context, environ, locals, sent>>

\* AcquireClient that makes a new client when the region read differs from the
\* region of the handle in the slot
AcquireClient_Rebind(ok) ==
  /\ pc = "client"
  /\ IF ses_client = NoClient \/ ses_client.region_name # aws_region
       THEN /\ calls' = Append(calls, "boto3.client")
            /\ IF ok
                 THEN /\ ses_client' = [id |-> created + 1, region_name |-> aws_region]
                      /\ created' = created + 1
                      /\ pc' = "send" /\ UNCHANGED response
                 ELSE /\ Finish(unexpected_error_response)
                      /\ UNCHANGED <<ses_client, created>>
       ELSE /\ ok
            /\ pc' = "send"
            /\ UNCHANGED <<ses_client, created, calls, response>>
  /\ UNCHANGED <<invocations, failures, event, context, environ, locals, sent>>

\* Lines 290-292: the client is made when the slot is empty; boto3.client
\* returns a handle for the region (ok) or raises.
AcquireClient(ok) ==
  /\ pc = "client"
  /\ IF ses_client = NoClient
       THEN /\ calls' = Append(calls, "boto3.client")
            /\ IF ok
                 THEN /\ ses_client' = [id |-> created + 1, region_name |-> aws_region]
                      /\ created' = created + 1
                      /\ pc' = "send" /\ UNCHANGED response
                 ELSE /\ Finish(unexpected_error_response)
                      /\ UNCHANGED <<ses_client, created>>
       ELSE /\ ok
            /\ pc' = "send"
            /\ UNCHANGED <<ses_client, created, calls, response>>
  /\ UNCHANGED <<invocations, failures, event, context, environ, locals, sent>>

T_SubjectPrefix ==
  <<"N","e","w"," ","C","o","n","t","a","c","t"," ","F","o","r","m"," ","S","u","b","m",
    "i","s","s","i","o","n"," ","f","r","o","m"," ">>

T_BodyName == <<"\n","N","a","m","e",":"," ">>

T_BodyEmail == <<"\n","E","m","a","i","l",":"," ">>

T_BodyPhone == <<"\n","P","h","o","n","e",":"," ">>

T_NotProvided == <<"N","o","t"," ","p","r","o","v","i","d","e","d">>

T_BodyMessage == <<"\n","\n","M","e","s","s","a","g","e",":","\n">>

T_BodyTail == <<"\n"," "," "," "," "," "," "," "," ">>

\* email_body without the placeholder for a phone that was not given
email_body_no_placeholder(n, e, p, m) ==
  T_BodyName \o n \o T_BodyEmail \o e \o T_BodyPhone \o p
    \o T_BodyMessage \o m \o T_BodyTail

\* Lines 295-302: the f-string of the plaintext body
email_body(n, e, p, m) ==
  T_BodyName \o n \o T_BodyEmail \o e
    \o T_BodyPhone \o (IF p # <<>> THEN p ELSE T_NotProvided)
    \o T_BodyMessage \o m \o T_BodyTail

\* Lines 306-313: the arguments of send_email
send_email_call(client, recipient, n, e, p, m) ==
  [client |-> client,
   Source |-> recipient,
   ToAddresses |-> <<recipient>>,
   Subject |-> T_SubjectPrefix \o n,
   Body |-> email_body(n, e, p, m)]

\* client_error_response without the MessageRejected branch
client_error_response_no_rejected(out) ==
  IF ~out.hasError THEN unexpected_error_response
  ELSE error_response(500, "Failed to send email")

\* client_error_response that passes the provider's detail on to the caller
client_error_response_detail(out) ==
  IF ~out.hasError THEN unexpected_error_response
  ELSE IF out.Code = "MessageRejected"
    THEN error_response(400, "Email address is not verified in SES")
  ELSE error_response(500, out.Message)

\* Lines 320-332: the response for a ClientError
client_error_response(out) ==
  IF ~out.hasError THEN unexpected_error_response
  ELSE IF out.Code = "MessageRejected"
    THEN error_response(400, "Email address is not verified in SES")
  ELSE error_response(500, "Failed to send email")

\* send_response that gives the caller the text of the exception
send_response_exception_text(out) ==
  CASE out.kind = "ok" -> success_response("Thank you! Your message has been sent.")
    [] out.kind = "ClientError" -> client_error_response(out)
    [] out.kind = "Exception" -> error_response(500, out.Message)

\* send_response with an exception that is no ClientError swallowed
send_response_swallow(out) ==
  CASE out.kind = "ok" -> success_response("Thank you! Your message has been sent.")
    [] out.kind = "ClientError" -> client_error_response(out)
    [] out.kind = "Exception" -> success_response("Thank you! Your message has been sent.")

\* the response after send_email has returned or raised
send_response(out) ==
  CASE out.kind = "ok" -> success_response("Thank you! Your message has been sent.")
    [] out.kind = "ClientError" -> client_error_response(out)
    [] out.kind = "Exception" -> unexpected_error_response

\* Lines 294-332: the message is composed and sent once, with outcome out.
Send(out) ==
  /\ pc = "send"
  /\ sends' = Append(sends, send_email_call(ses_client, recipient_email,
                                            name, email, phone, message))
  /\ send_results' = Append(send_results, out)
  /\ calls' = Append(calls, "send_email")
  /\ Finish(send_response(out))
  /\ UNCHANGED <<invocations, failures, event, context, environ, locals, ses_client, created>>

\* the invocations that failed so far, with the one that ends now
failures_after ==
  IF response.kind = "return" /\ response.statusCode = 200
    THEN failures ELSE failures + 1

\* The invocation is over: its caller has the response, the event, the locals and
\* the response are dropped, the module-level slot stays.
Return ==
  /\ pc = "done"
  /\ pc' = "idle"
  /\ failures' = failures_after
  /\ event' = NoEvent /\ context' = [has_aws_request_id |-> TRUE]
  /\ environ' = NoEnvironment
  /\ body' = JsonOther("NoneType")
  /\ name' = <<>> /\ email' = <<>> /\ phone' = <<>> /\ message' = <<>>
  /\ aws_region' = "" /\ recipient_email' = ""
  /\ calls' = <<>> /\ sends' = <<>> /\ send_results' = <<>>
  /\ response' = NoResponse
  /\ UNCHANGED <<invocations, ses_client, created>>

Next ==
  \/ \E e \in Events, c \in Contexts : Invoke(e, c)
  \/ Receive
  \/ Parse
  \/ Validate
  \/ \E env \in Environments : Configure(env)
  \/ \E ok \in BOOLEAN : AcquireClient(ok)
  \/ \E out \in SendOutcomes : Send(out)
  \/ Return

Spec == Init /\ [][Next]_vars

\* ------------------------------------------------------------ properties

\* an invocation is over and its result is with the caller
Done == pc = "done"

\* the event is a request (a dict) and the context is one the runtime passes
Request == event.isDict /\ context.has_aws_request_id

NonOptionsRequest == Request /\ event.httpMethod # "OPTIONS"

NumberOf(call) == Cardinality({i \in DOMAIN calls : calls[i] = call})

StagesBeforeSend ==
  <<"json.loads", "sanitize", "check:name", "check:email", "check:phone",
    "check:message", "getenv:AWS_REGION", "getenv:RECIPIENT_EMAIL">>

\* C1: every invocation ends with a structured response (statusCode, headers);
\* no exception leaves lambda_handler, whatever the event and the context are.
C1_NoExceptionEscapes ==
  Done => /\ response.kind = "return"
          /\ response.statusCode \in {200, 400, 500}
          /\ response.headers # {}

\* C2: send_email is called at most once in an invocation, as its last call,
\* and only after the body parsed as a dict, the four checks passed and both
\* configuration values were read; an invocation that ends earlier sends nothing.
C2_SendOnceAfterAllStages ==
  /\ Len(sends) <= 1
  /\ NumberOf("send_email") = Len(sends)
  /\ Len(send_results) = Len(sends)
  /\ sends # <<>> =>
       /\ calls \in {StagesBeforeSend \o <<"send_email">>,
                     StagesBeforeSend \o <<"boto3.client", "send_email">>}
       /\ body.t = "dict"
       /\ ~CheckName(name) /\ ~CheckEmail(email)
       /\ ~CheckPhone(phone) /\ ~CheckMessage(message)
       /\ environ.AWS_REGION.set /\ environ.AWS_REGION.value # ""
       /\ environ.RECIPIENT_EMAIL.set /\ environ.RECIPIENT_EMAIL.value # ""
       /\ aws_region = environ.AWS_REGION.value
       /\ recipient_email = environ.RECIPIENT_EMAIL.value
  /\ (Done /\ (calls = <<>> \/ calls[Len(calls)] # "send_email")) => sends = <<>>

\* a send that failed, and was not tried again
C2_Witness ==
  Done /\ Len(sends) = 1 /\ send_results[1].kind # "ok" /\ response.statusCode = 500

SentOnceOk == Len(sends) = 1 /\ Len(send_results) = 1 /\ send_results[1].kind = "ok"

ThankYouResponse ==
  /\ response.kind = "return"
  /\ response.statusCode = 200
  /\ response.body.present /\ response.body.success
  /\ response.body.message = "Thank you! Your message has been sent."

\* C3: a request that is no OPTIONS request is answered 200, success:true and
\* the thank-you message exactly when send_email was called once and returned;
\* on every other path the answer has success:false.
C3_SuccessIffSentOnce ==
  (Done /\ NonOptionsRequest) =>
     /\ response.kind = "return"
     /\ ThankYouResponse <=> SentOnceOk
     /\ ~SentOnceOk => /\ response.body.present /\ ~response.body.success
                       /\ response.statusCode # 200

C3_Witness == Done /\ NonOptionsRequest /\ ThankYouResponse /\ SentOnceOk

\* C4: an OPTIONS request calls nothing (no parse, no configuration read, no
\* client, no send) and is answered 200 with the three CORS headers and no body,
\* whatever its body is.
C4_PreflightBypassesAll ==
  (event.isDict /\ event.httpMethod = "OPTIONS") =>
     /\ pc \in {"receive", "done"}
     /\ calls = <<>> /\ sends = <<>>
     /\ environ = NoEnvironment /\ body = JsonOther("NoneType")
     /\ (Done /\ Request) =>
          /\ response.kind = "return"
          /\ response.statusCode = 200
          /\ response.headers = {<<"Access-Control-Allow-Origin", "*">>,
                                 <<"Access-Control-Allow-Methods", "POST, OPTIONS">>,
                                 <<"Access-Control-Allow-Headers", "Content-Type">>}
          /\ ~response.body.present

\* an OPTIONS request that carries a submission that would pass validation
C4_Witness ==
  /\ Done /\ Request /\ event.httpMethod = "OPTIONS"
  /\ response.statusCode = 200
  /\ event.body = Key(BodyStr(JsonText(JsonObject(
       [name |-> Key(PyStr(S_Al)), email |-> Key(PyStr(S_Email)),
        phone |-> NoKey, message |-> Key(PyStr(S_Hello))]))))

Is400(msg) ==
  /\ response.kind = "return"
  /\ response.statusCode = 400
  /\ response.body.present /\ ~response.body.success
  /\ response.body.message = msg

\* C5: a body that is no well-formed JSON is answered 400 "Invalid JSON format",
\* a well-formed body that is no object 400 "Request body must be a JSON object",
\* both without any field check or send; a request without a body key is parsed
\* as the empty object and answered 400 by the validation.
C5_ParseStage ==
  (Done /\ NonOptionsRequest) =>
     /\ (event.body.present /\ event.body.v.isStr /\ ~event.body.v.text.wf) =>
          Is400("Invalid JSON format") /\ calls = <<"json.loads">> /\ sends = <<>>
     /\ (/\ event.body.present /\ event.body.v.isStr /\ event.body.v.text.wf
         /\ event.body.v.text.doc.t # "dict") =>
          /\ Is400("Request body must be a JSON object")
          /\ calls = <<"json.loads">> /\ sends = <<>>
     /\ ~event.body.present =>
          /\ body = JsonObject(NoFields)
          /\ Is400("Invalid name")
          /\ calls = <<"json.loads", "sanitize", "check:name">>

\* the body is the JSON text null
C5_Witness ==
  /\ Done /\ NonOptionsRequest
  /\ event.body = Key(BodyStr(JsonText(JsonOther("NoneType"))))
  /\ Is400("Request body must be a JSON object")

\* the check of the k-th field, in the order name, email, phone, message, fails
Fails(k) ==
  CASE k = 1 -> CheckName(name)
    [] k = 2 -> CheckEmail(email)
    [] k = 3 -> CheckPhone(phone)
    [] k = 4 -> CheckMessage(message)

FieldMessage ==
  <<"Invalid name", "Invalid email", "Invalid phone number",
    "Invalid message (5-5000 characters)">>

\* every field of the parsed body is a str or falsy, so sanitize_input raises nothing
FieldsSanitized ==
  /\ body.t = "dict"
  /\ NumberOf("sanitize") = 1
  /\ \A f \in Range(FieldNames) :
       \/ dict_get(body.fields, f, PyStr(<<>>)).t = "str"
       \/ ~dict_get(body.fields, f, PyStr(<<>>)).truthy

\* C6: the fields are checked in the order name, email, phone, message; the 400
\* response carries the message of the first field whose check fails, and no
\* later field is checked.
C6_FirstFailingFieldDecides ==
  Done =>
     /\ \A k \in 1..4 :
          (response.kind = "return" /\ response.body.message = FieldMessage[k]) =>
             /\ Is400(FieldMessage[k])
             /\ Fails(k)
             /\ \A j \in 1..(k - 1) : ~Fails(j)
             /\ calls = SubSeq(StagesBeforeSend, 1, 2 + k)
     /\ \A k \in 1..4 :
          (FieldsSanitized /\ Fails(k) /\ \A j \in 1..(k - 1) : ~Fails(j)) =>
             Is400(FieldMessage[k])

\* name, email and message are all invalid, and the name is what is reported
C6_Witness ==
  /\ Done /\ FieldsSanitized
  /\ Fails(1) /\ Fails(2) /\ Fails(4)
  /\ Is400("Invalid name")

Is500(msg) ==
  /\ response.kind = "return"
  /\ response.statusCode = 500
  /\ response.body.present /\ ~response.body.success
  /\ response.body.message = msg

\* the invocation read the configuration and a required value is unset or empty
ConfigurationMissing ==
  /\ NumberOf("getenv:AWS_REGION") = 1
  /\ \/ ~environ.AWS_REGION.set \/ environ.AWS_REGION.value = ""
     \/ ~environ.RECIPIENT_EMAIL.set \/ environ.RECIPIENT_EMAIL.value = ""

\* C7, as stated: a validated request with a configuration value missing or empty
\* is answered 500 with the message "Configuration error", without a client
\* being made or a send.
C7_ConfigurationErrorMessage ==
  (Done /\ ConfigurationMissing) =>
     /\ Is500("Configuration error")
     /\ NumberOf("boto3.client") = 0 /\ sends = <<>>

\* C7, amended: a validated request with a configuration value missing or empty
\* is answered 500 with the generic message "An unexpected error occurred",
\* makes no client and sends nothing, also with a client cached in the slot.
C7_ConfigurationError ==
  (Done /\ ConfigurationMissing) =>
     /\ Is500("An unexpected error occurred")
     /\ response.headers = JsonHeaders
     /\ NumberOf("boto3.client") = 0 /\ sends = <<>>
     /\ calls \in {StagesBeforeSend, SubSeq(StagesBeforeSend, 1, 7)}

\* the recipient is missing while a client from an earlier invocation is cached
C7_Witness ==
  /\ Done /\ ConfigurationMissing
  /\ environ.AWS_REGION.set /\ environ.AWS_REGION.value # ""
  /\ ses_client # NoClient
  /\ response.statusCode = 500

\* send_email raised ClientError with the Error code c
SendFailedWith(c) ==
  /\ Len(send_results) = 1
  /\ send_results[1].kind = "ClientError"
  /\ send_results[1].hasError
  /\ send_results[1].Code = c

\* C8, as stated: a send rejected with code MessageRejected is answered 400,
\* success:false, with the message "Email address is not verified".
C8_MessageRejectedText ==
  (Done /\ SendFailedWith("MessageRejected")) => Is400("Email address is not verified")

\* C8, amended: a send rejected with code MessageRejected is answered 400,
\* success:false, with the message "Email address is not verified in SES".
C8_MessageRejected ==
  (Done /\ SendFailedWith("MessageRejected")) =>
     Is400("Email address is not verified in SES")

C8_Witness ==
  Done /\ SendFailedWith("MessageRejected") /\ response.statusCode = 400

\* C9: a send that fails with a provider error of any other code is answered 500,
\* success:false, "Failed to send email"; neither the provider's code nor its
\* detail is in the response.
C9_OtherProviderError ==
  (Done /\ Len(send_results) = 1 /\ send_results[1].kind = "ClientError"
        /\ send_results[1].hasError /\ send_results[1].Code # "MessageRejected") =>
     /\ Is500("Failed to send email")
     /\ response.headers = JsonHeaders
     /\ response.body.message \notin {send_results[1].Code, send_results[1].Message}

C9_Witness ==
  /\ Done /\ SendFailedWith("ServiceUnavailable")
  /\ send_results[1].Message = "Service is temporarily unavailable"
  /\ response.statusCode = 500

\* one step keeps the client slot as C10 says
SlotStep ==
  /\ created' <= 1
  /\ ses_client # NoClient => ses_client' = ses_client /\ created' = created
  /\ ses_client' # ses_client =>
       /\ ses_client = NoClient /\ created = 0 /\ created' = 1
       /\ pc = "client" /\ calls = StagesBeforeSend
       /\ ~CheckName(name) /\ ~CheckEmail(email)
       /\ ~CheckPhone(phone) /\ ~CheckMessage(message)
       /\ aws_region # "" /\ recipient_email # ""
       /\ ses_client'.region_name = aws_region
  /\ (pc = "client" /\ ses_client = NoClient) => calls' = Append(calls, "boto3.client")
  /\ (pc = "client" /\ ses_client # NoClient) => calls' = calls /\ pc' = "send"
  /\ (pc = "client" /\ pc' = "send") => ses_client' # NoClient
  /\ Len(sends') > Len(sends) =>
       /\ ses_client # NoClient /\ ses_client' = ses_client
       /\ sends'[Len(sends')].client = ses_client

\* C10: in one process the client is made at most once, in an invocation that
\* passed validation and configuration with the slot empty (each such invocation
\* calls boto3.client, an invocation that finds the slot set does not); every
\* send goes through that handle and no step clears or replaces the slot once it
\* is set.
C10_ClientCreatedOnce == [][SlotStep]_vars

\* a later invocation sends through the handle an earlier one made, after that
\* earlier send had failed
C10_Witness ==
  /\ Done /\ invocations >= 2
  /\ ses_client # NoClient /\ ses_client.id = 1
  /\ NumberOf("boto3.client") = 0
  /\ Len(sends) = 1 /\ sends[1].client = ses_client
  /\ send_results[1].kind # "ok"

\* C11: every response lambda_handler returns carries Access-Control-Allow-Origin
\* "*"; every response but the one to the preflight also carries Content-Type
\* "application/json", a status code of 200, 400 or 500 and a JSON body with a
\* boolean success and a string message, success being true exactly at 200.
C11_ResponseShape ==
  (Done /\ response.kind = "return") =>
     /\ <<"Access-Control-Allow-Origin", "*">> \in response.headers
     /\ event.httpMethod # "OPTIONS" =>
          /\ <<"Content-Type", "application/json">> \in response.headers
          /\ response.statusCode \in {200, 400, 500}
          /\ response.body.present
          /\ response.body.success \in BOOLEAN
          /\ response.body.message \in STRING
          /\ response.body.success <=> response.statusCode = 200

\* an error response, here one of the validation
C11_Witness ==
  /\ Done /\ NonOptionsRequest /\ response.kind = "return"
  /\ response.statusCode = 400 /\ ~response.body.success
  /\ response.headers = JsonHeaders

\* what sanitize_input makes of field f of the body this invocation parsed
SanitizedField(f) == sanitize_call(dict_get(body.fields, f, PyStr(<<>>))).s

\* C12: whenever send_email is called, its Source and its single destination
\* are the recipient read from the configuration in this invocation, its subject
\* contains the sanitized name, and its text contains the sanitized name, email
\* and message and the sanitized phone, or "Not provided" when that is empty.
C12_SendArguments ==
  \A i \in DOMAIN sends :
     /\ environ.RECIPIENT_EMAIL.set
     /\ environ.RECIPIENT_EMAIL.value \in Recipients
     /\ sends[i].Source = environ.RECIPIENT_EMAIL.value
     /\ sends[i].ToAddresses = <<environ.RECIPIENT_EMAIL.value>>
     /\ Contains(sends[i].Subject, T_SubjectPrefix \o SanitizedField("name"))
     /\ \A f \in {"name", "email", "message"} :
          /\ SanitizedField(f) # <<>>
          /\ Contains(sends[i].Body, SanitizedField(f))
     /\ Contains(sends[i].Body,
                 T_BodyPhone \o (IF SanitizedField("phone") = <<>>
                                   THEN T_NotProvided
                                   ELSE SanitizedField("phone")) \o T_BodyMessage)

\* a submission without a phone is sent to the second recipient
C12_Witness ==
  /\ Done /\ Len(sends) = 1
  /\ ~body.fields["phone"].present
  /\ Contains(sends[1].Body, T_NotProvided)
  /\ sends[1].Source = "owner@example.com"
  /\ sends[1].ToAddresses = <<"owner@example.com">>

\* the body key holds None, a text that is no JSON, or JSON that is no object
BadBody ==
  /\ event.body.present
  /\ \/ ~event.body.v.isStr
     \/ ~event.body.v.text.wf
     \/ event.body.v.text.doc.t # "dict"

\* the body is an object one of whose fields is truthy and no str
NonStringField ==
  /\ body.t = "dict"
  /\ \E f \in Range(FieldNames) :
       /\ dict_get(body.fields, f, PyStr(<<>>)).truthy
       /\ dict_get(body.fields, f, PyStr(<<>>)).t # "str"

\* the body is an object of str or falsy fields, one of which fails its check
InvalidField == FieldsSanitized /\ \E k \in 1..4 : Fails(k)

\* C13: a request that is no OPTIONS request and whose body is None, malformed,
\* no JSON object, or an object with a field that is no string or fails its
\* check is answered 400, never 500, whatever the configuration and the slot.
C13_BadInputIs400 ==
  (Done /\ NonOptionsRequest /\ (BadBody \/ NonStringField \/ InvalidField)) =>
     response.kind = "return" /\ response.statusCode = 400

\* the email field as the request gave it
RawEmail == dict_get(body.fields, "email", PyStr(<<>>))

\* C14: a submission whose sanitized email holds "&lt;" or "&gt;" is answered
\* 400 "Invalid email" and nothing is sent; the handler accepts the email of a
\* submission exactly when is_valid_email accepts the email as submitted.
C14_EncodedBracketRejected ==
  (Done /\ NonOptionsRequest /\ FieldsSanitized /\ ~Fails(1)) =>
     /\ (Contains(email, L_lt) \/ Contains(email, L_gt)) =>
          Is400("Invalid email") /\ sends = <<>>
     /\ RawEmail.t = "str" =>
          (Is400("Invalid email") <=> ~is_valid_email(RawEmail.s))

\* C15: the message is accepted exactly when the length of the sanitized, trimmed
\* message, the text that goes into the email, lies in 5..5000; otherwise the
\* answer is 400 "Invalid message (5-5000 characters)". This also holds for a
\* message with characters that sanitize_input encodes as entities.
C15_MessageLengthDecides ==
  (Done /\ NonOptionsRequest /\ FieldsSanitized
        /\ ~Fails(1) /\ ~Fails(2) /\ ~Fails(3)) =>
     /\ Is400("Invalid message (5-5000 characters)")
          <=> ~(Len(message) >= 5 /\ Len(message) <= 5000)
     /\ \A i \in DOMAIN sends :
          Len(message) >= 5 /\ Len(message) <= 5000
          /\ Contains(sends[i].Body, T_BodyMessage \o message \o T_BodyTail)

\* the text holds "javascript:" in some letter case, or an on<word>= attribute
HasScriptPattern(s) ==
  \E i \in 1..Len(s) : MatchEnd("javascript", s, i) # 0 \/ MatchEnd("on", s, i) # 0

\* C16: what sanitize_input returns holds no "javascript:" in any letter case and
\* no on<word>= attribute, also when the removal of one occurrence joins the text
\* around it into a new one.
C16_OutputFreeOfScriptPatterns ==
  FieldsSanitized =>
    \A f \in Range(FieldNames) : ~HasScriptPattern(SanitizedField(f))

\* the message strings of the handler
HandlerMessages ==
  {"Invalid JSON format", "Request body must be a JSON object", "Invalid name",
   "Invalid email", "Invalid phone number", "Invalid message (5-5000 characters)",
   "Thank you! Your message has been sent.",
   "Email address is not verified in SES", "Failed to send email",
   "An unexpected error occurred"}

\* the outcome of a send with its text taken out, and its code when that is not
\* MessageRejected
WithoutDetail(out) ==
  [out EXCEPT !.Message = "",
              !.Code = IF @ \in {"", "MessageRejected"} THEN @ ELSE "other"]

\* C17: the response does not tell the cause of an internal failure: its message
\* is one of the handler's fixed strings; it is the same response whichever
\* configuration value is missing, and the same whatever the text of the
\* exception or the provider's detail of a failed send is.
C17_NoCauseInResponse ==
  (Done /\ response.kind = "return" /\ response.body.present) =>
     /\ response.body.message \in HandlerMessages
     /\ ConfigurationMissing => response = unexpected_error_response
     /\ (sends = <<>> /\ NumberOf("boto3.client") = 1) =>
          response = unexpected_error_response
     /\ Len(send_results) = 1 =>
          response = send_response(WithoutDetail(send_results[1]))

\* send_email raised an exception that is no ClientError, with a text
C17_Witness ==
  /\ Done /\ Len(send_results) = 1
  /\ send_results[1].kind = "Exception" /\ send_results[1].Message # ""
  /\ Is500("An unexpected error occurred")

\* what json.loads makes of the body of this invocation's event
RequestBody == json_loads(dict_get(event, "body", DefaultBody))

\* what sanitize_input makes of field f of this invocation's event
RequestField(f) ==
  sanitize_call(dict_get(RequestBody.doc.fields, f, PyStr(<<>>)))

\* the fields of this invocation's event, sanitized
RequestFields == [f \in Range(FieldNames) |-> RequestField(f)]

\* the response that the fields r of a request, the configuration env read in the
\* invocation and the results of its send_email calls determine: a set of one
\* response; without a send there is a response only when the invocation called
\* boto3.client (made), which then raised
FieldsResponse(r, env, results, made) ==
  IF \E f \in DOMAIN r : r[f].exc # "none" THEN {unexpected_error_response}
  ELSE IF validate_fields(r.name.s, r.email.s, r.phone.s, r.message.s).failed # "none"
    THEN {error_response(400, validation_message(
            validate_fields(r.name.s, r.email.s, r.phone.s, r.message.s).failed))}
  ELSE IF \E v \in {"AWS_REGION", "RECIPIENT_EMAIL"} :
            get_required_env_var(env, v).exc # "none"
    THEN {unexpected_error_response}
  ELSE IF results = <<>> THEN (IF made THEN {unexpected_error_response} ELSE {})
  ELSE {send_response(results[1])}

\* the same for the whole event e, with b what json.loads makes of its body
EventResponse(e, b, r, env, results, made) ==
  IF e.httpMethod = "OPTIONS" THEN {preflight_response}
  ELSE IF b.exc = "JSONDecodeError"
    THEN {error_response(400, "Invalid JSON format")}
  ELSE IF b.exc # "none" THEN {unexpected_error_response}
  ELSE IF b.doc.t # "dict"
    THEN {error_response(400, "Request body must be a JSON object")}
  ELSE FieldsResponse(r, env, results, made)

\* the send_email calls that the request and the configuration determine, through
\* the handle of the slot
EventSends(r, env, results) ==
  IF results = <<>> THEN <<>>
  ELSE <<send_email_call(ses_client, env.RECIPIENT_EMAIL.value,
                         r.name.s, r.email.s, r.phone.s, r.message.s)>>

\* C18: in every invocation of a process, the first or a later one, the response
\* and the arguments of the send are those that the invocation's own event, the
\* configuration it read and the outcome of its own send determine; nothing of
\* an earlier invocation but the handle in the slot enters them.
C18_InvocationsIndependent ==
  (Done /\ Request) =>
     /\ response \in EventResponse(event, RequestBody, RequestFields, environ,
                                   send_results, NumberOf("boto3.client") = 1)
     /\ Len(send_results) <= 1
     /\ sends = EventSends(RequestFields, environ, send_results)

\* a submission is sent after two invocations of the process that failed
C18_Witness ==
  /\ Done /\ Request /\ failures >= 2
  /\ ThankYouResponse /\ Len(sends) = 1

\* one step treats region, recipient and a failed boto3.client as C19 says
RegionStep ==
  /\ (pc = "client" /\ ses_client # NoClient) =>
       /\ ses_client' = ses_client /\ created' = created
       /\ NumberOf("boto3.client") = 0 /\ calls' = calls
       /\ pc' = "send"
  /\ (pc = "client" /\ ses_client = NoClient) =>
       /\ calls' = Append(calls, "boto3.client")
       /\ \/ /\ pc' = "send"
             /\ ses_client' # NoClient /\ ses_client'.region_name = aws_region
          \/ /\ pc' = "done"
             /\ ses_client' = NoClient
             /\ response' = error_response(500, "An unexpected error occurred")
             /\ sends' = <<>>
  /\ pc = "send" =>
       /\ aws_region = environ.AWS_REGION.value
       /\ ses_client.region_name \in Regions
       /\ Len(sends') = 1
       /\ sends'[1].client = ses_client
       /\ sends'[1].Source = environ.RECIPIENT_EMAIL.value
       /\ sends'[1].ToAddresses = <<environ.RECIPIENT_EMAIL.value>>
  /\ (pc = "done" /\ pc' = "idle") => ses_client' = ses_client

\* C19: the handle keeps the region of the invocation that made it: with another
\* region read later no handle is made and the mail goes through the handle of
\* the slot, to the recipient read in the invocation itself; when boto3.client
\* fails the slot stays empty, the invocation answers 500 and sends nothing, and
\* every invocation that comes to this point with the slot empty calls
\* boto3.client again.
C19_HandleKeepsItsRegion == [][RegionStep]_vars

\* a mail is sent through a handle made for another region than the one read,
\* to the recipient read in this invocation
C19_Witness ==
  /\ Done /\ Len(sends) = 1
  /\ aws_region = "eu-west-1"
  /\ sends[1].client = ses_client /\ ses_client.region_name = "us-east-1"
  /\ NumberOf("boto3.client") = 0
  /\ sends[1].Source = "owner@example.com"
  /\ send_results[1].kind = "ok"

====
